---------------------------- MODULE Spec2Model ----------------------------
(***************************************************************************)
(* A model of lu_packets' codec primitives (src/src/common.rs) and of the  *)
(* capture_parser example (src/examples/capture_parser/main.rs): the       *)
(* component resolver Cdclient::get_comps, the tag classification and the  *)
(* entry loop of parse, the directory walk visit_dirs, and main.           *)
(*                                                                         *)
(* The module holds four specifications over disjoint groups of variables: *)
(*   SpecResolver  Cdclient::get_comps against a registry store            *)
(*   SpecClassify  the if/else-if chain of parse applied to one tag        *)
(*   SpecCodec     Serialize/Deserialize of SystemAddress, ServiceId,      *)
(*                 lu_str! and lu_wstr! types over byte sinks and sources  *)
(*   SpecRun       main, visit_dirs and parse over a capture tree          *)
(***************************************************************************)
EXTENDS Integers, Sequences, FiniteSets, TLC

VARIABLES
    \* ---- component resolver (Cdclient) ----
    db,          \* the registry store: lot -> set of raw component_type rows
    comp_cache,  \* Cdclient.comp_cache: a map lot -> Vec<u32>
    queries,     \* lot -> number of row-source queries made for it
    calls,       \* number of get_comps calls made so far
    ret,         \* the last get_comps call: its lot and the Vec it returned
    dbg_out,     \* the three dbg!(&comps) dumps of the last row-source query
    \* ---- classification of one tag ----
    cls_tag,     \* file.name() of the entry
    cls_cat,     \* the branch of parse's if/else-if chain the tag takes
    \* ---- codec primitives ----
    target_endian, \* byte order of the build target (what transmute sees)
    c_type,      \* the primitive type exercised
    c_phase,     \* "text" | "value" | "wire" | "decoded" | "off"
    c_text,      \* the &str handed to From<&str> (a sequence of chars)
    c_val,       \* the value serialized (or built by From<&str>)
    c_origin,    \* how c_wire came to be: "encoded" by serialize, or "raw"
    c_wire,      \* the bytes in the sink after serialize / in the source
    c_out,       \* the Res<Self> deserialize returned
    c_io,        \* the byte counts the io::Read::read / io::Write::write calls returned
    \* ---- capture replay (main, visit_dirs, parse) ----
    fs,          \* the capture path's file tree; node 1 is the capture path
    pc,          \* "main" | "running" | "done" | "usage" | "panicked" | "off"
    stack,       \* call stack of visit_dirs and parse frames, top last
    PRINT_PACKETS, \* static mut PRINT_PACKETS
    reported,    \* <<n>> once main printed "Number of parsed packets: n"
    decode_log,  \* the file.read()/ctx.read() decode calls made so far
    parse_ret    \* the last Ok(packet_count) return of parse

resolverVars == <<db, comp_cache, queries, calls, ret, dbg_out>>

classifyVars == <<cls_tag, cls_cat>>

codecVars ==
    <<target_endian, c_type, c_phase, c_text, c_val, c_origin, c_wire, c_out, c_io>>

runVars == <<fs, pc, stack, PRINT_PACKETS, reported, decode_log, parse_ret>>

vars == <<resolverVars, classifyVars, codecVars, runVars>>

\* The value of the variables of a part that a specification does not run.
ResolverOff ==
    /\ db = <<>> /\ comp_cache = <<>> /\ queries = <<>>
    /\ calls = 0 /\ ret = <<>> /\ dbg_out = <<>>

ClassifyOff == cls_tag = "" /\ cls_cat = "off"

CodecOff ==
    /\ target_endian = "off" /\ c_type = "off" /\ c_phase = "off"
    /\ c_text = <<>> /\ c_val = <<>> /\ c_origin = "off"
    /\ c_wire = <<>> /\ c_out = <<>> /\ c_io = <<>>

RunOff ==
    /\ fs = <<>> /\ pc = "off" /\ stack = <<>> /\ PRINT_PACKETS = FALSE
    /\ reported = <<>> /\ decode_log = <<>> /\ parse_ret = <<>>

-----------------------------------------------------------------------------
(* Helpers on sequences *)

Range(s) == {s[i] : i \in DOMAIN s}

Min(a, b) == IF a < b THEN a ELSE b

\* The sequences listing every element of the finite set S exactly once.
Orderings(S) ==
    {s \in [1..Cardinality(S) -> S] : \A x \in S : \E i \in DOMAIN s : s[i] = x}

\* All sequences over S of length at most n.
SeqsUpTo(S, n) == UNION {[1..k -> S] : k \in 0..n}

-----------------------------------------------------------------------------
(* Component resolver: Cdclient::get_comps *)

\* Bounds of the resolver model.
MaxRows == 2     \* at most this many registry rows per lot
MaxCalls == 3    \* at most this many get_comps calls in a run

\* The lots (template ids) looked up, and the raw component types the
\* registry may hold: every key of the implied-component match, a type of
\* COMP_ORDER that implies nothing (60), and two types absent from COMP_ORDER.
\* The rows of lot 2 are drawn from fewer types, which keeps the number of
\* registries small.
Lots == {1, 2}
RawTypes == {2, 4, 7, 23, 48, 60, 8, 200}
FewRawTypes == {23, 8, 200}

RowSets(types) == {S \in SUBSET types : Cardinality(S) <= MaxRows}

Registries ==
    {[l \in Lots |-> IF l = 1 THEN r1 ELSE r2] :
        r1 \in RowSets(RawTypes), r2 \in RowSets(FewRawTypes)}

COMP_ORDER ==
    <<1, 3, 40, 98, 7, 23, 110, 109, 106, 4, 17, 5, 9, 60, 48, 16, 6, 2, 44, 107>>

\* usize::MAX, the sort key of a type absent from COMP_ORDER.  TLC's integers
\* are 32 bits wide; the key is only ever compared with indices below 20.
UsizeMax == 2147483647

NoRet == [lot |-> 0, comps |-> <<>>, called |-> FALSE]

\* match value { 2 => .., 4 => .., 7 => .., 23 => .., 48 => .., _ => {} }
Implied(value) ==
    CASE value = 2  -> <<44>>
      [] value = 4  -> <<110, 109, 106>>
      [] value = 7  -> <<98>>
      [] value = 23 -> <<7>>
      [] value = 48 -> <<7>>
      [] OTHER      -> <<>>

\* A mutant of PushRows: an implied type is itself expanded again.
RECURSIVE ImpliedClosure(_)
ImpliedClosure(s) ==
    IF s = <<>> THEN <<>>
    ELSE <<Head(s)>> \o ImpliedClosure(Implied(Head(s))) \o ImpliedClosure(Tail(s))

PushRowsTransitive(rows) == ImpliedClosure(rows)

\* for row in rows { comps.push(value); match value { .. } }
RECURSIVE PushRows(_)
PushRows(rows) ==
    IF rows = <<>> THEN <<>>
    ELSE <<Head(rows)>> \o Implied(Head(rows)) \o PushRows(Tail(rows))

\* Insert x into s, which is sorted by key, behind every element whose key
\* is not greater: the insertion step of a stable sort.
RECURSIVE InsertStable(_, _, _)
InsertStable(s, x, key) ==
    IF s = <<>> THEN <<x>>
    ELSE IF key[x] < key[Head(s)] THEN <<x>> \o s
    ELSE <<Head(s)>> \o InsertStable(Tail(s), x, key)

\* slice::sort_by_key, a stable sort: s ordered by key, equal keys kept in
\* their order in s.
RECURSIVE StableSortByKey(_, _)
StableSortByKey(s, key) ==
    IF s = <<>> THEN <<>>
    ELSE InsertStable(StableSortByKey(SubSeq(s, 1, Len(s) - 1), key), s[Len(s)], key)

\* comps.sort(): ascending order of the u32 values.
Sort(s) == StableSortByKey(s, [x \in Range(s) |-> x])

\* comps.dedup(): consecutive repeated elements are removed.
RECURSIVE Dedup(_)
Dedup(s) ==
    IF Len(s) <= 1 THEN s
    ELSE IF s[1] = s[2] THEN Dedup(Tail(s))
    ELSE <<s[1]>> \o Dedup(Tail(s))

\* COMP_ORDER.iter().position(|y| y == x): the 0-based index of x, as the
\* set of matches (empty: None).
Position(x) == {i \in DOMAIN COMP_ORDER : COMP_ORDER[i] = x}

\* A mutant of OrderKey: unwrap_or(0) in place of unwrap_or(usize::MAX).
OrderKeyAbsentFirst(x) ==
    IF Position(x) = {} THEN 0
    ELSE (CHOOSE i \in Position(x) : \A j \in Position(x) : i <= j) - 1

\* |x| COMP_ORDER.iter().position(|y| y == x).unwrap_or(usize::MAX)
OrderKey(x) ==
    IF Position(x) = {} THEN UsizeMax
    ELSE (CHOOSE i \in Position(x) : \A j \in Position(x) : i <= j) - 1

\* comps.sort_by_key(|x| ..)
SortByCompOrder(s) == StableSortByKey(s, [x \in Range(s) |-> OrderKey(x)])

\* A mutant of CacheHit: the cache is never consulted.
CacheHitNever(cache, lot) == FALSE

\* self.comp_cache.contains_key(&lot)
CacheHit(cache, lot) == lot \in DOMAIN cache

\* get_comps(lot) on a miss: one query of the row source, whose rows come
\* back in some order, then the expansion, the two sorts and the insert.
GetCompsMiss(lot) ==
    /\ ~CacheHit(comp_cache, lot)
    /\ \E rows \in Orderings(db[lot]) :
         LET pushed  == PushRows(rows)
             deduped == Dedup(Sort(pushed))
             comps   == SortByCompOrder(deduped)
         IN /\ dbg_out' = <<pushed, deduped, comps>>
            /\ comp_cache' = [l \in DOMAIN comp_cache \cup {lot} |->
                                IF l = lot THEN comps ELSE comp_cache[l]]
            /\ ret' = [lot |-> lot, comps |-> comps, called |-> TRUE]
    /\ queries' = [queries EXCEPT ![lot] = @ + 1]

\* get_comps(lot) on a hit: the cached Vec is returned.
GetCompsHit(lot) ==
    /\ CacheHit(comp_cache, lot)
    /\ ret' = [lot |-> lot, comps |-> comp_cache[lot], called |-> TRUE]
    /\ UNCHANGED <<comp_cache, queries, dbg_out>>

get_comps(lot) ==
    /\ calls < MaxCalls
    /\ calls' = calls + 1
    /\ UNCHANGED <<db, classifyVars, codecVars, runVars>>
    /\ \/ GetCompsMiss(lot)
       \/ GetCompsHit(lot)

\* Cdclient { conn: Connection::open(..), comp_cache: HashMap::new() }
InitResolver ==
    /\ ClassifyOff /\ CodecOff /\ RunOff
    /\ db \in Registries
    /\ comp_cache = <<>>
    /\ queries = [l \in Lots |-> 0]
    /\ calls = 0
    /\ ret = NoRet
    /\ dbg_out = <<>>

NextResolver == \E lot \in Lots : get_comps(lot)

SpecResolver == InitResolver /\ [][NextResolver]_vars

-----------------------------------------------------------------------------
(* Claims about the component resolver, checked under SpecResolver *)

InTable(x) == \E i \in DOMAIN COMP_ORDER : COMP_ORDER[i] = x

TableIndex(x) == CHOOSE i \in DOMAIN COMP_ORDER : COMP_ORDER[i] = x

IndexIn(s, x) == CHOOSE i \in DOMAIN s : s[i] = x

\* The expansion table as the specification states it.
ImpliedBy(r) ==
    CASE r = 2  -> {44}
      [] r = 4  -> {110, 109, 106}
      [] r = 7  -> {98}
      [] r = 23 -> {7}
      [] r = 48 -> {7}
      [] OTHER  -> {}

\* C1: resolve is idempotent.  No lot is ever queried more than once, a lot is
\* cached exactly when it has been queried, and once a lot is cached every
\* step leaves its entry (and every other cached entry) unchanged; a call for
\* a cached lot returns exactly the cached sequence and makes no query.
C1_ResolveIdempotent ==
    /\ [](\A l \in Lots : /\ queries[l] <= 1
                          /\ (l \in DOMAIN comp_cache <=> queries[l] = 1))
    /\ [][\A l \in DOMAIN comp_cache :
            /\ l \in DOMAIN comp_cache'
            /\ comp_cache'[l] = comp_cache[l]
            /\ (calls' = calls + 1 /\ ret'.lot = l) =>
                 /\ ret'.comps = comp_cache[l]
                 /\ queries' = queries]_vars

\* Witness of C1: lot 1, which has no registry rows, was resolved twice (both
\* calls so far were for it), with one query and the empty sequence returned.
C1_Witness ==
    /\ calls = 2
    /\ DOMAIN comp_cache = {1}
    /\ db[1] = {}
    /\ queries[1] = 1
    /\ ret = [lot |-> 1, comps |-> <<>>, called |-> TRUE]

OrderedByTable(c) ==
    \A i, j \in DOMAIN c : i < j =>
        /\ (InTable(c[i]) /\ InTable(c[j])) => TableIndex(c[i]) < TableIndex(c[j])
        /\ ~(~InTable(c[i]) /\ InTable(c[j]))

AbsentKeepOrder(c, d) ==
    \A i, j \in DOMAIN c : (i < j /\ ~InTable(c[i]) /\ ~InTable(c[j])) =>
        IndexIn(d, c[i]) < IndexIn(d, c[j])

\* C2: the sequence resolve returns lists the types of the priority table in
\* increasing table index, then the types absent from the table, these in
\* their relative order after the deduplication step (the second dbg! dump);
\* raw rows {23, 60} resolve to <<7, 23, 60>>.
C2_ResolveOrdering ==
    /\ ret.called =>
         /\ OrderedByTable(ret.comps)
         /\ db[ret.lot] = {23, 60} => ret.comps = <<7, 23, 60>>
    /\ dbg_out # <<>> =>
         /\ Range(dbg_out[3]) = Range(dbg_out[2])
         /\ Len(dbg_out[3]) = Len(dbg_out[2])
         /\ AbsentKeepOrder(dbg_out[3], dbg_out[2])

\* Witness of C2: rows {23, 60} resolved to <<7, 23, 60>>, and rows {8, 200},
\* both absent from the table, resolved after them in their deduplicated order.
C2_Witness ==
    /\ DOMAIN comp_cache = {1, 2}
    /\ db[1] = {23, 60} /\ comp_cache[1] = <<7, 23, 60>>
    /\ db[2] = {8, 200} /\ comp_cache[2] = <<8, 200>>
    /\ ret.lot = 1 /\ ret.comps = <<7, 23, 60>>

\* C3: the expansion is single-pass.  The types of a resolved sequence are
\* the raw rows and the types the table implies for the raw rows, nothing
\* else; a lot whose only raw row is 23 resolves to the types {23, 7}.
C3_SinglePassExpansion ==
    /\ \A l \in DOMAIN comp_cache :
         /\ Range(comp_cache[l]) = db[l] \cup UNION {ImpliedBy(r) : r \in db[l]}
         /\ db[l] = {23} => (Range(comp_cache[l]) = {23, 7} /\ 98 \notin Range(comp_cache[l]))
    /\ ret.called => Range(ret.comps) = db[ret.lot] \cup UNION {ImpliedBy(r) : r \in db[ret.lot]}

\* Witness of C3: a lot whose only raw row is 23 was resolved to <<7, 23>>.
C3_Witness ==
    /\ ret.called
    /\ db[ret.lot] = {23}
    /\ ret.comps = <<7, 23>>

-----------------------------------------------------------------------------
(* Tag classification: the if/else-if chain of parse's loop body *)

\* str::contains: pat occurs in s as a contiguous substring.
Contains(s, pat) ==
    \E i \in 1..(Len(s) - Len(pat) + 1) : SubSeq(s, i, i + Len(pat) - 1) = pat

ContainsAny(s, pats) == \E p \in pats : Contains(s, p)

\* The !file.name().contains(..) lists of the [53-04- branch.
WorldServerExceptions ==
    {"[53-04-00-16]", "[e6-00]", "[6b-03]", "[16-04]", "[49-04]", "[ad-04]",
     "[1c-05]", "[230]", "[875]", "[1046]", "[1097]", "[1197]", "[1308]"}

\* The !file.name().contains(..) list of the [53-05- alternative.
WorldClientExceptions ==
    {"[53-05-00-00]", "[53-05-00-15]", "[53-05-00-31]", "[76-00]", "[e6-00]",
     "[ff-00]", "[a1-01]", "[7f-02]", "[a3-02]", "[cc-02]", "[35-03]", "[36-03]",
     "[4d-03]", "[6d-03]", "[91-03]", "[1a-05]", "[e6-05]", "[16-06]", "[1c-06]",
     "[6f-06]", "[70-06]", "[118]", "[230]", "[255]", "[417]", "[639]", "[675]",
     "[716]", "[821]", "[822]", "[845]", "[877]", "[913]", "[1306]", "[1510]",
     "[1558]", "[1564]", "[1647]", "[1648]"}

\* The !file.name().contains(..) list of the [24] alternative.
ReplicaConstructionExceptions ==
    {"(2365)", "(4930)", "(5635)", "(5958)", "(6007)", "(6010)", "(6209)",
     "(6267)", "(6289)", "(6319)", "(7282)", "(8304)"}

\* if file.name().contains("of") { i += 1; continue; }
IsContinuation(tag) == Contains(tag, "of")

\* if file.name().contains("[53-01-")
IsAuthServer(tag) == Contains(tag, "[53-01-")

\* else if file.name().contains("[53-04-") && !.. && !..
IsWorldServer(tag) ==
    Contains(tag, "[53-04-") /\ ~ContainsAny(tag, WorldServerExceptions)

\* else if file.name().contains("[53-02-") || (..) || (..) || file.name().contains("[27]")
IsWorldClient(tag) ==
    \/ Contains(tag, "[53-02-")
    \/ Contains(tag, "[53-05-") /\ ~ContainsAny(tag, WorldClientExceptions)
    \/ Contains(tag, "[24]") /\ ~ContainsAny(tag, ReplicaConstructionExceptions)
    \/ Contains(tag, "[27]")

\* A mutant of Classify: the [53-01- test is made before the "of" test.
ClassifyAuthFirst(tag) ==
    IF IsAuthServer(tag) THEN "AuthServer"
    ELSE IF IsContinuation(tag) THEN "Ignored"
    ELSE IF IsWorldServer(tag) THEN "WorldServer"
    ELSE IF IsWorldClient(tag) THEN "WorldClient"
    ELSE "Ignored"

\* The branch of the chain a tag takes, named by the message type the branch
\* decodes: AuthServerMessage, WorldServerMessage, WorldClientMessage, or
\* none ("Ignored": i += 1; continue).
Classify(tag) ==
    IF IsContinuation(tag) THEN "Ignored"
    ELSE IF IsAuthServer(tag) THEN "AuthServer"
    ELSE IF IsWorldServer(tag) THEN "WorldServer"
    ELSE IF IsWorldClient(tag) THEN "WorldClient"
    ELSE "Ignored"

\* Whether the branch calls file.read() / ctx.read().
Decodes(cat) == cat \in {"AuthServer", "WorldServer", "WorldClient"}

\* Bound of the classification model: a tag is built of at most this many parts.
MaxTagParts == 3

TagParts ==
    {"of", "o", "f", "[53-01-", "04]", "[53-04-", "00-16]", "[53-02-",
     "[53-05-", "[24]", "(2365)", "[27]"}

RECURSIVE TagsOf(_)
TagsOf(n) ==
    IF n = 0 THEN {""}
    ELSE LET shorter == TagsOf(n - 1)
         IN shorter \cup {t \o p : t \in shorter, p \in TagParts}

InitClassify ==
    /\ ResolverOff /\ CodecOff /\ RunOff
    /\ cls_tag \in TagsOf(MaxTagParts)
    /\ cls_cat = "unclassified"

ClassifyEntry ==
    /\ cls_cat = "unclassified"
    /\ cls_cat' = Classify(cls_tag)
    /\ UNCHANGED <<cls_tag, resolverVars, codecVars, runVars>>

NextClassify == ClassifyEntry

SpecClassify == InitClassify /\ [][NextClassify]_vars

-----------------------------------------------------------------------------
(* Claims about the classification, checked under SpecClassify *)

\* C4: the rules are evaluated in fixed priority order.  A tag containing "of"
\* is Ignored and not decoded, whatever else it contains; a tag without "of"
\* that contains [53-01- is AuthServer, whatever else it contains, and
\* "[53-01-04]" is; a tag that matches no rule is Ignored, not a failure.
C4_ClassifierPriority ==
    cls_cat # "unclassified" =>
        /\ cls_cat \in {"AuthServer", "WorldServer", "WorldClient", "Ignored"}
        /\ Contains(cls_tag, "of") => (cls_cat = "Ignored" /\ ~Decodes(cls_cat))
        /\ (~Contains(cls_tag, "of") /\ Contains(cls_tag, "[53-01-")) =>
              cls_cat = "AuthServer"
        /\ cls_tag = "[53-01-04]" => cls_cat = "AuthServer"
        /\ (/\ ~Contains(cls_tag, "of")
            /\ ~Contains(cls_tag, "[53-01-") /\ ~Contains(cls_tag, "[53-04-")
            /\ ~Contains(cls_tag, "[53-02-") /\ ~Contains(cls_tag, "[53-05-")
            /\ ~Contains(cls_tag, "[24]") /\ ~Contains(cls_tag, "[27]")) =>
              cls_cat = "Ignored"

\* Witness of C4: a tag holding both [53-01- and the continuation marker was
\* classified, and came out Ignored.
C4_Witness ==
    /\ cls_tag = "[53-01-04]of"
    /\ cls_cat = "Ignored"

-----------------------------------------------------------------------------
(* Codec primitives: src/src/common.rs *)

\* Bounds of the codec model.
StrCap == 2       \* $n of lu_str!/lu_wstr!: the capacity of the string types
MaxTextLen == 2   \* a &str handed to From<&str> has at most this many chars
MaxSrcLen == 6    \* a raw byte source holds at most this many bytes

\* Byte values of raw sources and of values, UTF-16 code units of wide string
\* values, and the chars of a &str: NUL, 'A', U+00E9 (two UTF-8 bytes) and
\* U+10000 (four UTF-8 bytes, a surrogate pair in UTF-16).
ByteVals == {0, 1, 65}
WideUnits == {0, 65, 321}
TextChars == {0, 65, 233, 65536}

CodecTypes == {"LuStr", "LuWStr", "SystemAddress", "ServiceId"}

\* enum ServiceId { General = 0, Auth = 1, World = 4, Client = 5 }
ServiceIdCode(id) ==
    CASE id = "General" -> 0
      [] id = "Auth"    -> 1
      [] id = "World"   -> 4
      [] id = "Client"  -> 5

ServiceIds == {"General", "Auth", "World", "Client"}

\* The number of bytes a value of the type takes on the wire.
Width(type) ==
    CASE type = "SystemAddress" -> 6
      [] type = "ServiceId"     -> 2
      [] type = "LuStr"         -> StrCap
      [] type = "LuWStr"        -> 2 * StrCap

Ok(v) == [ok |-> TRUE, val |-> v]

Err(e) == [ok |-> FALSE, err |-> e]

\* [0; n] overwritten from its start by the bytes s.
ZeroFilled(s, n) == [i \in 1..n |-> IF i <= Len(s) THEN s[i] ELSE 0]

\* u16::to_le_bytes / u16::from_le_bytes, as endio's LEWrite::write and
\* LERead::read of a u16 use them.
U16ToLe(x) == <<x % 256, x \div 256>>

U16FromLe(b) == b[1] + 256 * b[2]

\* The bytes of a u16 in memory on the build target, and back: what
\* mem::transmute between [u16; n] and [u8; 2n] sees.
U16ToNative(x) ==
    IF target_endian = "little" THEN <<x % 256, x \div 256>>
    ELSE <<x \div 256, x % 256>>

U16FromNative(b) ==
    IF target_endian = "little" THEN b[1] + 256 * b[2]
    ELSE 256 * b[1] + b[2]

\* The counts io::Read::read may return for a buffer of `want` bytes when the
\* source holds `avail`: 0 only at the end of the source, else any count up to
\* what fits and is there (a slice gives the most, a stream may give less).
ReadCounts(want, avail) ==
    IF want = 0 \/ avail = 0 THEN {0} ELSE 1..Min(want, avail)

\* The counts io::Write::write may return for a buffer of len bytes (a Vec
\* takes them all).
WriteCounts(len) == 1..len

\* char::encode_utf8
Utf8(c) ==
    IF c < 128 THEN <<c>>
    ELSE IF c < 2048 THEN <<192 + (c \div 64), 128 + (c % 64)>>
    ELSE IF c < 65536 THEN
        <<224 + (c \div 4096), 128 + ((c \div 64) % 64), 128 + (c % 64)>>
    ELSE <<240 + (c \div 262144), 128 + ((c \div 4096) % 64),
           128 + ((c \div 64) % 64), 128 + (c % 64)>>

\* char::encode_utf16
Utf16(c) ==
    IF c < 65536 THEN <<c>>
    ELSE <<55296 + ((c - 65536) \div 1024), 56320 + ((c - 65536) % 1024)>>

\* string.bytes()
RECURSIVE Bytes(_)
Bytes(text) == IF text = <<>> THEN <<>> ELSE Utf8(Head(text)) \o Bytes(Tail(text))

\* string.encode_utf16()
RECURSIVE EncodeUtf16(_)
EncodeUtf16(text) ==
    IF text = <<>> THEN <<>> ELSE Utf16(Head(text)) \o EncodeUtf16(Tail(text))

\* Iterator::take(n)
Take(s, n) == SubSeq(s, 1, Min(n, Len(s)))

\* impl From<&str> for $name (lu_str!)
LuStrFrom(text) == ZeroFilled(Take(Bytes(text), StrCap - 1), StrCap)

\* impl From<&str> for $name (lu_wstr!)
LuWStrFrom(text) == ZeroFilled(Take(EncodeUtf16(text), StrCap - 1), StrCap)

\* transmute::<[u16; n], [u8; 2n]>
RECURSIVE UnitsToBytes(_)
UnitsToBytes(units) ==
    IF units = <<>> THEN <<>>
    ELSE U16ToNative(Head(units)) \o UnitsToBytes(Tail(units))

\* transmute::<[u8; 2n], [u16; n]>
BytesToUnits(bytes) ==
    [i \in 1..(Len(bytes) \div 2) |-> U16FromNative(<<bytes[2 * i - 1], bytes[2 * i]>>)]

FromStr ==
    /\ c_phase = "text"
    /\ c_phase' = "value"
    /\ c_val' = IF c_type = "LuStr" THEN LuStrFrom(c_text) ELSE LuWStrFrom(c_text)
    /\ UNCHANGED <<target_endian, c_type, c_text, c_origin, c_wire, c_out, c_io>>
    /\ UNCHANGED <<resolverVars, classifyVars, runVars>>

\* impl Serialize for &SystemAddress: one io::Write::write of the octets,
\* then LEWrite::write of the port.
SerializeSystemAddress ==
    /\ c_phase = "value" /\ c_type = "SystemAddress"
    /\ \E n \in WriteCounts(4) :
         /\ c_wire' = SubSeq(c_val.ip, 1, n) \o U16ToLe(c_val.port)
         /\ c_io' = <<n>>
    /\ c_phase' = "wire" /\ c_origin' = "encoded"
    /\ UNCHANGED <<target_endian, c_type, c_text, c_val, c_out>>
    /\ UNCHANGED <<resolverVars, classifyVars, runVars>>

\* impl Serialize for ServiceId: writer.write(self as u16)
SerializeServiceId ==
    /\ c_phase = "value" /\ c_type = "ServiceId"
    /\ c_wire' = U16ToLe(ServiceIdCode(c_val))
    /\ c_phase' = "wire" /\ c_origin' = "encoded"
    /\ UNCHANGED <<target_endian, c_type, c_text, c_val, c_out, c_io>>
    /\ UNCHANGED <<resolverVars, classifyVars, runVars>>

\* impl Serialize for &$name (lu_str!): writer.write_all(&self.0)
SerializeLuStr ==
    /\ c_phase = "value" /\ c_type = "LuStr"
    /\ c_wire' = c_val
    /\ c_phase' = "wire" /\ c_origin' = "encoded"
    /\ UNCHANGED <<target_endian, c_type, c_text, c_val, c_out, c_io>>
    /\ UNCHANGED <<resolverVars, classifyVars, runVars>>

\* impl Serialize for &$name (lu_wstr!): transmute, then write_all
SerializeLuWStr ==
    /\ c_phase = "value" /\ c_type = "LuWStr"
    /\ c_wire' = UnitsToBytes(c_val)
    /\ c_phase' = "wire" /\ c_origin' = "encoded"
    /\ UNCHANGED <<target_endian, c_type, c_text, c_val, c_out, c_io>>
    /\ UNCHANGED <<resolverVars, classifyVars, runVars>>

\* impl Deserialize for SystemAddress: one io::Read::read into [0; 4], whose
\* count is dropped, then LERead::read of a u16 (read_exact: an error when
\* fewer than two bytes are left).
DeserializeSystemAddress ==
    /\ c_phase = "wire" /\ c_type = "SystemAddress"
    /\ \E k \in ReadCounts(4, Len(c_wire)) :
         LET ip   == ZeroFilled(SubSeq(c_wire, 1, k), 4)
             rest == SubSeq(c_wire, k + 1, Len(c_wire))
         IN /\ c_out' = IF Len(rest) < 2 THEN Err("UnexpectedEof")
                        ELSE Ok([ip |-> ip, port |-> U16FromLe(SubSeq(rest, 1, 2))])
            /\ c_io' = c_io \o <<k>>
    /\ c_phase' = "decoded"
    /\ UNCHANGED <<target_endian, c_type, c_text, c_val, c_origin, c_wire>>
    /\ UNCHANGED <<resolverVars, classifyVars, runVars>>

\* impl Deserialize for ServiceId: reader.read()? of a u16, then the match.
DeserializeServiceId ==
    /\ c_phase = "wire" /\ c_type = "ServiceId"
    /\ c_out' =
         IF Len(c_wire) < 2 THEN Err("UnexpectedEof")
         ELSE LET id == U16FromLe(SubSeq(c_wire, 1, 2))
              IN IF \E s \in ServiceIds : ServiceIdCode(s) = id
                 THEN Ok(CHOOSE s \in ServiceIds : ServiceIdCode(s) = id)
                 ELSE Err(<<"unknown", "service id", id>>)
    /\ c_phase' = "decoded"
    /\ UNCHANGED <<target_endian, c_type, c_text, c_val, c_origin, c_wire, c_io>>
    /\ UNCHANGED <<resolverVars, classifyVars, runVars>>

\* impl Deserialize for $name (lu_str!): one reader.read(&mut bytes)? into
\* [0u8; $n], whose count is dropped.
DeserializeLuStr ==
    /\ c_phase = "wire" /\ c_type = "LuStr"
    /\ \E k \in ReadCounts(StrCap, Len(c_wire)) :
         /\ c_out' = Ok(ZeroFilled(SubSeq(c_wire, 1, k), StrCap))
         /\ c_io' = c_io \o <<k>>
    /\ c_phase' = "decoded"
    /\ UNCHANGED <<target_endian, c_type, c_text, c_val, c_origin, c_wire>>
    /\ UNCHANGED <<resolverVars, classifyVars, runVars>>

\* impl Deserialize for $name (lu_wstr!): one reader.read(&mut bytes)? into
\* [0u8; $n*2], whose count is dropped, then the transmute.
DeserializeLuWStr ==
    /\ c_phase = "wire" /\ c_type = "LuWStr"
    /\ \E k \in ReadCounts(2 * StrCap, Len(c_wire)) :
         /\ c_out' = Ok(BytesToUnits(ZeroFilled(SubSeq(c_wire, 1, k), 2 * StrCap)))
         /\ c_io' = c_io \o <<k>>
    /\ c_phase' = "decoded"
    /\ UNCHANGED <<target_endian, c_type, c_text, c_val, c_origin, c_wire>>
    /\ UNCHANGED <<resolverVars, classifyVars, runVars>>

\* Whether a string value holds a zero unit.
Terminated(v) == \E i \in DOMAIN v : v[i] = 0

\* The values a caller may hand to serialize: every SystemAddress and
\* ServiceId, and the string arrays that hold a terminator.
ValidValues(type) ==
    CASE type = "SystemAddress" ->
           [ip : [1..4 -> ByteVals], port : {U16FromLe(b) : b \in [1..2 -> ByteVals]}]
      [] type = "ServiceId" -> ServiceIds
      [] type = "LuStr"  -> {v \in [1..StrCap -> ByteVals] : Terminated(v)}
      [] type = "LuWStr" -> {v \in [1..StrCap -> WideUnits] : Terminated(v)}

\* The inputs: a &str to convert, a value to serialize, or a raw byte source
\* to deserialize from.
InitCodec ==
    /\ ResolverOff /\ ClassifyOff /\ RunOff
    /\ target_endian \in {"little", "big"}
    /\ c_type \in CodecTypes
    /\ c_out = <<>> /\ c_io = <<>>
    /\ \/ /\ c_phase = "text" /\ c_type \in {"LuStr", "LuWStr"}
          /\ c_text \in SeqsUpTo(TextChars, MaxTextLen)
          /\ c_val = <<>> /\ c_wire = <<>> /\ c_origin = "none"
       \/ /\ c_phase = "value"
          /\ c_val \in ValidValues(c_type)
          /\ c_text = <<>> /\ c_wire = <<>> /\ c_origin = "none"
       \/ /\ c_phase = "wire" /\ c_origin = "raw"
          /\ c_wire \in SeqsUpTo(ByteVals, MaxSrcLen)
          /\ c_text = <<>> /\ c_val = <<>>

NextCodec ==
    \/ FromStr
    \/ SerializeSystemAddress
    \/ SerializeServiceId
    \/ SerializeLuStr
    \/ SerializeLuWStr
    \/ DeserializeSystemAddress
    \/ DeserializeServiceId
    \/ DeserializeLuStr
    \/ DeserializeLuWStr

SpecCodec == InitCodec /\ [][NextCodec]_vars

-----------------------------------------------------------------------------
(* Claims about the codec primitives, checked under SpecCodec *)

IsString(type) == type \in {"LuStr", "LuWStr"}

\* C5: every fixed-capacity string value, built from text, handed to
\* serialize, or returned by deserialize from any byte source, holds at least
\* one zero unit among its units.
C5_AlwaysNullTerminated ==
    IsString(c_type) =>
        /\ c_val # <<>> => Terminated(c_val)
        /\ (c_phase = "decoded" /\ c_out.ok) => Terminated(c_out.val)

\* C6: deserialize of what serialize wrote gives the value back, and
\* serialize writes exactly 6, 2, N and 2N bytes, the port and the service id
\* as little-endian 16-bit integers.
C6_RoundTrip ==
    c_origin = "encoded" =>
        /\ Len(c_wire) = Width(c_type)
        /\ c_type = "SystemAddress" => c_wire = c_val.ip \o U16ToLe(c_val.port)
        /\ c_type = "ServiceId" => c_wire = U16ToLe(ServiceIdCode(c_val))
        /\ c_phase = "decoded" => c_out = Ok(c_val)

\* C7: deserialize of a SystemAddress, a FixedAsciiString<N> or a
\* FixedWideString<N> from a source that holds fewer bytes than the type's
\* width returns a failure, never a value.
C7_TruncatedIsError ==
    (/\ c_phase = "decoded"
     /\ c_type \in {"SystemAddress", "LuStr", "LuWStr"}
     /\ Len(c_wire) < Width(c_type)) => ~c_out.ok

\* The round trip of C6 does hold in the runs in which every read and write
\* call transferred the whole buffer it was given.
RoundTripUnderFullTransfers ==
    (/\ c_origin = "encoded" /\ c_phase = "decoded"
     /\ \A i \in DOMAIN c_io : c_io[i] = (IF c_type = "SystemAddress" THEN 4 ELSE Width(c_type)))
    => (c_out = Ok(c_val) /\ Len(c_wire) = Width(c_type))

-----------------------------------------------------------------------------
(* Capture replay: main, visit_dirs and parse *)

\* Bound of the replay model: an archive holds at most this many entries.
MaxEntries == 3

\* No count printed (yet): reported is <<>>, or <<n>> once main printed n.
NoCount == <<>>

\* Entry names of the archives: one per branch of parse's chain.
RunTags ==
    {"[53-01-04]", "[53-04-00-05]", "[53-05-00-04]", "[53-01-04] (1 of 2)", "[99]"}

Dir(name, children) ==
    [name |-> name, kind |-> "dir", zip |-> FALSE, children |-> children, entries |-> <<>>]

\* A file whose content is a zip archive with the named entries.
ArchiveFile(name, entries) ==
    [name |-> name, kind |-> "file", zip |-> TRUE, children |-> <<>>, entries |-> entries]

\* A file whose content is no zip archive.
OtherFile(name) ==
    [name |-> name, kind |-> "file", zip |-> FALSE, children |-> <<>>, entries |-> <<>>]

Archives(name) == {ArchiveFile(name, e) : e \in SeqsUpTo(RunTags, MaxEntries)}

SmallFiles ==
    {OtherFile("README"), OtherFile("notes.txt"), OtherFile("bad.zip"),
     ArchiveFile("b.zip", <<>>), ArchiveFile("b.zip", <<"[53-04-00-05]">>),
     ArchiveFile("b.zip", <<"[53-05-00-04]">>)}

NestedFiles ==
    {OtherFile("README"), OtherFile("notes.txt"),
     ArchiveFile("b.zip", <<"[53-04-00-05]">>)}

\* The capture paths: a single file, an empty directory, or a directory
\* listing a file and a subdirectory that lists a file.
CaptureTrees ==
    {<<f>> : f \in Archives("a.zip") \cup Archives(".zip") \cup SmallFiles}
        \cup {<<Dir("empty", <<>>)>>}
        \cup {<<Dir("caps", <<2, 3>>), f1, Dir("sub", <<4>>), f2>> :
                f1 \in Archives("a.zip") \cup SmallFiles, f2 \in NestedFiles}

\* Path::extension of a file name: None (<<>>) without a '.', or when the only
\* '.' starts the name; else Some (<<ext>>) of what follows the last '.'.
Extension(name) ==
    LET dots == {i \in 1..Len(name) : SubSeq(name, i, i) = "."}
    IN IF dots = {} THEN <<>>
       ELSE LET last == CHOOSE i \in dots : \A j \in dots : j <= i
            IN IF last = 1 THEN <<>> ELSE <<SubSeq(name, last + 1, Len(name))>>

\* The components of the canonicalized capture path.
CapturePath == <<"captures", fs[1].name>>

\* Path::ends_with: the components of child are the last components of path.
PathEndsWith(path, child) ==
    /\ Len(child) <= Len(path)
    /\ SubSeq(path, Len(path) - Len(child) + 1, Len(path)) = child

Frame(fn, node) ==
    [fn |-> fn, node |-> node, at |-> "enter", idx |-> 0, packet_count |-> 0,
     visited |-> <<>>]

Top == stack[Len(stack)]

SetTop(f) == [stack EXCEPT ![Len(stack)] = f]

\* return Ok(value) of the top frame: visit_dirs, the only caller with a
\* frame, adds it to its packet_count and goes on with its next entry; main
\* unwraps it and prints it.
Return(value) ==
    IF Len(stack) = 1
    THEN /\ stack' = <<>>
         /\ reported' = <<value>>
         /\ pc' = "done"
    ELSE /\ stack' = [SubSeq(stack, 1, Len(stack) - 1) EXCEPT ![Len(stack) - 1] =
                        [@ EXCEPT !.packet_count = @ + value, !.idx = @ + 1]]
         /\ UNCHANGED <<reported, pc>>

\* if args.len() < 3 { println!("Usage: .."); return; }
MainUsage ==
    /\ pc = "main"
    /\ \E argc \in 1..2 : pc' = "usage"
    /\ UNCHANGED <<fs, stack, PRINT_PACKETS, reported, decode_log, parse_ret>>
    /\ UNCHANGED <<resolverVars, classifyVars, codecVars>>

\* capture.ends_with(".zip"): parse(&capture, ..)
MainParse ==
    /\ pc = "main"
    /\ PathEndsWith(CapturePath, <<".zip">>)
    /\ \E argc \in 3..4 : PRINT_PACKETS' = (argc > 3)
    /\ stack' = <<Frame("parse", 1)>>
    /\ pc' = "running"
    /\ UNCHANGED <<fs, reported, decode_log, parse_ret>>
    /\ UNCHANGED <<resolverVars, classifyVars, codecVars>>

\* else: visit_dirs(&capture, .., 0)
MainVisitDirs ==
    /\ pc = "main"
    /\ ~PathEndsWith(CapturePath, <<".zip">>)
    /\ \E argc \in 3..4 : PRINT_PACKETS' = (argc > 3)
    /\ stack' = <<Frame("visit_dirs", 1)>>
    /\ pc' = "running"
    /\ UNCHANGED <<fs, reported, decode_log, parse_ret>>
    /\ UNCHANGED <<resolverVars, classifyVars, codecVars>>

Running(fn) == pc = "running" /\ stack # <<>> /\ Top.fn = fn

\* visit_dirs of a path that is no directory: Ok(0)
VisitNotDir ==
    /\ Running("visit_dirs")
    /\ fs[Top.node].kind # "dir"
    /\ Return(0)
    /\ UNCHANGED <<fs, PRINT_PACKETS, decode_log, parse_ret>>
    /\ UNCHANGED <<resolverVars, classifyVars, codecVars>>

\* One entry of fs::read_dir(dir): visit_dirs of a directory, parse of a file.
VisitEntry ==
    /\ Running("visit_dirs")
    /\ fs[Top.node].kind = "dir"
    /\ Top.idx < Len(fs[Top.node].children)
    /\ LET child == fs[Top.node].children[Top.idx + 1]
       IN stack' = Append(stack,
                      Frame(IF fs[child].kind = "dir" THEN "visit_dirs" ELSE "parse", child))
    /\ UNCHANGED <<fs, pc, PRINT_PACKETS, reported, decode_log, parse_ret>>
    /\ UNCHANGED <<resolverVars, classifyVars, codecVars>>

\* The listing is exhausted: Ok(packet_count)
VisitReturn ==
    /\ Running("visit_dirs")
    /\ fs[Top.node].kind = "dir"
    /\ Top.idx >= Len(fs[Top.node].children)
    /\ Return(Top.packet_count)
    /\ UNCHANGED <<fs, PRINT_PACKETS, decode_log, parse_ret>>
    /\ UNCHANGED <<resolverVars, classifyVars, codecVars>>

\* path.extension().unwrap() of a name without extension: a panic
ParseNoExtension ==
    /\ Running("parse") /\ Top.at = "enter"
    /\ Extension(fs[Top.node].name) = <<>>
    /\ pc' = "panicked"
    /\ UNCHANGED <<fs, stack, PRINT_PACKETS, reported, decode_log, parse_ret>>
    /\ UNCHANGED <<resolverVars, classifyVars, codecVars>>

\* if path.extension().unwrap() != "zip" { return Ok(0); }
ParseNotZip ==
    /\ Running("parse") /\ Top.at = "enter"
    /\ Extension(fs[Top.node].name) \notin {<<>>, <<"zip">>}
    /\ parse_ret' = [node |-> Top.node, count |-> 0, visited |-> <<>>]
    /\ Return(0)
    /\ UNCHANGED <<fs, PRINT_PACKETS, decode_log>>
    /\ UNCHANGED <<resolverVars, classifyVars, codecVars>>

\* ZipArchive::new(src).unwrap() of a file that is no archive: a panic
ParseBadArchive ==
    /\ Running("parse") /\ Top.at = "enter"
    /\ Extension(fs[Top.node].name) = <<"zip">>
    /\ ~fs[Top.node].zip
    /\ pc' = "panicked"
    /\ UNCHANGED <<fs, stack, PRINT_PACKETS, reported, decode_log, parse_ret>>
    /\ UNCHANGED <<resolverVars, classifyVars, codecVars>>

\* The archive is open: let mut i = 0; let mut packet_count = 0;
ParseOpen ==
    /\ Running("parse") /\ Top.at = "enter"
    /\ Extension(fs[Top.node].name) = <<"zip">>
    /\ fs[Top.node].zip
    /\ stack' = SetTop([Top EXCEPT !.at = "loop", !.idx = 0, !.packet_count = 0])
    /\ UNCHANGED <<fs, pc, PRINT_PACKETS, reported, decode_log, parse_ret>>
    /\ UNCHANGED <<resolverVars, classifyVars, codecVars>>

InLoop ==
    /\ Running("parse") /\ Top.at = "loop"
    /\ Top.idx < Len(fs[Top.node].entries)

\* let mut file = zip.by_index(i).unwrap(); file.name()
EntryTag == fs[Top.node].entries[Top.idx + 1]

\* The branch each entry name of the model takes.
TagClass == [tag \in RunTags |-> Classify(tag)]

\* A mutant of PacketCountAfter: the WorldClient branch does not count.
PacketCountAfterNoClient(cat, count) ==
    IF cat \in {"AuthServer", "WorldServer"} THEN count + 1 ELSE count

\* packet_count += 1 in each of the three decoding branches
PacketCountAfter(cat, count) == IF Decodes(cat) THEN count + 1 ELSE count

\* A mutant of ConsumptionChecked: the WorldClient branch never asserts.
ConsumptionCheckedServerOnly(cat, assert_fully_read) ==
    cat \in {"AuthServer", "WorldServer"}

\* Whether read_to_end and assert_eq!(rest, vec![]) follow the decode: always
\* after the AuthServer and WorldServer branches, under
\* if ctx.assert_fully_read in the WorldClient branch.
ConsumptionChecked(cat, assert_fully_read) ==
    \/ cat \in {"AuthServer", "WorldServer"}
    \/ cat = "WorldClient" /\ assert_fully_read

\* The values ctx.assert_fully_read may have after ctx.read(); the other
\* branches have no context.
FlagsAfterRead(cat) == IF cat = "WorldClient" THEN BOOLEAN ELSE {FALSE}

LogEntry(cat, outcome, flag) ==
    [node |-> Top.node, index |-> Top.idx, tag |-> EntryTag, cat |-> cat,
     outcome |-> outcome, assert_fully_read |-> flag]

\* The "of" branch and the final else: i += 1; continue
ParseSkip ==
    /\ InLoop
    /\ ~Decodes(TagClass[EntryTag])
    /\ stack' = SetTop([Top EXCEPT !.idx = @ + 1, !.visited = Append(@, Top.idx)])
    /\ UNCHANGED <<fs, pc, PRINT_PACKETS, reported, decode_log, parse_ret>>
    /\ UNCHANGED <<resolverVars, classifyVars, codecVars>>

\* file.read().expect(..) / ctx.read().expect(..) of an Err: a panic
ParseDecodeFail ==
    /\ InLoop
    /\ LET cat == TagClass[EntryTag]
       IN /\ Decodes(cat)
          /\ \E flag \in FlagsAfterRead(cat) :
               decode_log' = Append(decode_log, LogEntry(cat, "fail", flag))
    /\ stack' = SetTop([Top EXCEPT !.visited = Append(@, Top.idx)])
    /\ pc' = "panicked"
    /\ UNCHANGED <<fs, PRINT_PACKETS, reported, parse_ret>>
    /\ UNCHANGED <<resolverVars, classifyVars, codecVars>>

\* The decode returned a message and left bytes unread:
\* assert_eq!(rest, vec![], ..) panics where it is made.
ParseDecodeTrailing ==
    /\ InLoop
    /\ LET cat == TagClass[EntryTag]
       IN /\ Decodes(cat)
          /\ \E flag \in FlagsAfterRead(cat) :
               /\ decode_log' = Append(decode_log, LogEntry(cat, "trailing", flag))
               /\ IF ConsumptionChecked(cat, flag)
                  THEN /\ pc' = "panicked"
                       /\ stack' = SetTop([Top EXCEPT
                                      !.packet_count = PacketCountAfter(cat, @),
                                      !.visited = Append(@, Top.idx)])
                  ELSE /\ pc' = pc
                       /\ stack' = SetTop([Top EXCEPT
                                      !.packet_count = PacketCountAfter(cat, @),
                                      !.idx = @ + 1,
                                      !.visited = Append(@, Top.idx)])
    /\ UNCHANGED <<fs, PRINT_PACKETS, reported, parse_ret>>
    /\ UNCHANGED <<resolverVars, classifyVars, codecVars>>

\* The decode returned a message and read the entry to its end.
ParseDecodeOk ==
    /\ InLoop
    /\ LET cat == TagClass[EntryTag]
       IN /\ Decodes(cat)
          /\ \E flag \in FlagsAfterRead(cat) :
               decode_log' = Append(decode_log, LogEntry(cat, "ok", flag))
          /\ stack' = SetTop([Top EXCEPT
                         !.packet_count = PacketCountAfter(cat, @),
                         !.idx = @ + 1,
                         !.visited = Append(@, Top.idx)])
    /\ UNCHANGED <<fs, pc, PRINT_PACKETS, reported, parse_ret>>
    /\ UNCHANGED <<resolverVars, classifyVars, codecVars>>

\* while i < zip.len() ends: Ok(packet_count)
ParseReturn ==
    /\ Running("parse") /\ Top.at = "loop"
    /\ Top.idx >= Len(fs[Top.node].entries)
    /\ parse_ret' = [node |-> Top.node, count |-> Top.packet_count,
                     visited |-> Top.visited]
    /\ Return(Top.packet_count)
    /\ UNCHANGED <<fs, PRINT_PACKETS, decode_log>>
    /\ UNCHANGED <<resolverVars, classifyVars, codecVars>>

InitRun ==
    /\ ResolverOff /\ ClassifyOff /\ CodecOff
    /\ fs \in CaptureTrees
    /\ pc = "main"
    /\ stack = <<>>
    /\ PRINT_PACKETS = FALSE
    /\ reported = NoCount
    /\ decode_log = <<>>
    /\ parse_ret = <<>>

NextRun ==
    \/ MainUsage
    \/ MainParse
    \/ MainVisitDirs
    \/ VisitNotDir
    \/ VisitEntry
    \/ VisitReturn
    \/ ParseNoExtension
    \/ ParseNotZip
    \/ ParseBadArchive
    \/ ParseOpen
    \/ ParseSkip
    \/ ParseDecodeFail
    \/ ParseDecodeTrailing
    \/ ParseDecodeOk
    \/ ParseReturn

SpecRun == InitRun /\ [][NextRun]_vars

-----------------------------------------------------------------------------
(* Claims about the capture replay, checked under SpecRun *)

\* The number of entries whose name takes a decoding branch.
CountClassified(entries) ==
    Cardinality({k \in DOMAIN entries :
        Classify(entries[k]) \in {"AuthServer", "WorldServer", "WorldClient"}})

\* A decode that failed, or that left bytes unread where the consumption
\* check is enabled.
Failed(e) ==
    \/ e.outcome = "fail"
    \/ /\ e.outcome = "trailing"
       /\ \/ e.cat \in {"AuthServer", "WorldServer"}
          \/ e.cat = "WorldClient" /\ e.assert_fully_read

\* C8: fail-fast.  A failed decode, or a decode that leaves trailing bytes
\* under an enabled consumption check, is the last decode of the run: the run
\* has panicked, no entry of any archive is decoded after it, and no final
\* count is reported.
C8_FailFast ==
    /\ \A k \in DOMAIN decode_log :
         Failed(decode_log[k]) => (k = Len(decode_log) /\ pc = "panicked")
    /\ pc = "panicked" => reported = NoCount
    /\ reported # NoCount => \A k \in DOMAIN decode_log : ~Failed(decode_log[k])

\* Witness of C8: after an earlier decode, a WorldClient decode left trailing
\* bytes with assert_fully_read still set; the run panicked in the first
\* file of the directory, with an entry of that archive and the archive of
\* the subdirectory still to come.
C8_Witness ==
    /\ pc = "panicked"
    /\ Len(decode_log) = 2
    /\ decode_log[2].cat = "WorldClient"
    /\ decode_log[2].outcome = "trailing"
    /\ decode_log[2].assert_fully_read
    /\ Len(stack) = 2
    /\ Top.node = 2
    /\ Top.idx + 1 < Len(fs[2].entries)
    /\ fs[4].zip /\ fs[4].entries # <<>>
    /\ reported = NoCount

\* C9: given the path of a single archive, main replays it and reports the
\* number of its entries that classify to a decoded category (3 for an
\* archive of one AuthServer, one WorldServer and one WorldClient entry).
C9_SingleArchiveCounted ==
    (/\ pc = "done"
     /\ fs[1].kind = "file" /\ fs[1].zip
     /\ Extension(fs[1].name) = <<"zip">>)
    => /\ reported = <<CountClassified(fs[1].entries)>>
       /\ fs[1].entries = <<"[53-01-04]", "[53-04-00-05]", "[53-05-00-04]">>
            => reported = <<3>>

Ascending(n) == [k \in 1..n |-> k - 1]

\* C10: parse visits the entry indices 0..len-1 once each in ascending order,
\* the cursor never passes len, and the count parse returns for an archive is
\* the number of its entries that classify to AuthServer, WorldServer or
\* WorldClient.
C10_ParseVisitsEachEntryOnce ==
    /\ \A d \in DOMAIN stack :
         (stack[d].fn = "parse" /\ stack[d].at = "loop") =>
            /\ stack[d].idx <= Len(fs[stack[d].node].entries)
            /\ pc # "panicked" => stack[d].visited = Ascending(stack[d].idx)
            /\ pc = "panicked" => stack[d].visited = Ascending(stack[d].idx + 1)
    /\ (parse_ret # <<>> /\ Extension(fs[parse_ret.node].name) = <<"zip">>) =>
            /\ parse_ret.visited = Ascending(Len(fs[parse_ret.node].entries))
            /\ parse_ret.count = CountClassified(fs[parse_ret.node].entries)

\* Witness of C10: parse returned 2 for an archive of a continuation entry, a
\* WorldClient entry and an AuthServer entry, having visited 0, 1, 2.
C10_Witness ==
    /\ parse_ret # <<>>
    /\ fs[parse_ret.node].entries =
         <<"[53-01-04] (1 of 2)", "[53-05-00-04]", "[53-01-04]">>
    /\ parse_ret.visited = <<0, 1, 2>>
    /\ parse_ret.count = 2

=============================================================================
